---------------------------- MODULE Spec2Model ----------------------------
(***************************************************************************)
(* Model of calc_precision_recall, the Monte Carlo precision/recall        *)
(* estimator of the hypothesis-testing lesson (src/unnamed/part_000,       *)
(* cells 1-3 and the cell defining calc_precision_recall).                 *)
(*                                                                         *)
(* Python floats are modelled as fixed-point integers with FP units per    *)
(* 1.0 (2.93 is 2930), together with the IEEE special values inf, -inf and *)
(* nan where the code can produce them.  The numpy generator (Mersenne     *)
(* twister) is a deterministic function of its state; which state a seed   *)
(* leads to is unknown to the model and is chosen once, in Init (mt).      *)
(***************************************************************************)
EXTENDS Integers, Sequences, FiniteSets

VARIABLES
    mt,               \* the generator's seeding function: seed -> stream
    rng,              \* state of numpy's global generator
    pc,               \* "idle" (no call active) or "loop" (inside the call)
    nsamples,         \* argument of the active call
    signif_level,     \* argument of the active call
    p_positive,       \* argument of the active call
    todo,             \* indices range(n_iters) has not yet yielded
    iteration,        \* loop variable
    true_positives,
    false_positives,
    true_negatives,
    false_negatives,
    truth,            \* local of the loop body
    x,                \* local: the sample
    se,               \* local: standard error
    tstat,            \* local: t-statistic
    pvalue,           \* local: p-value
    rejected,         \* history: indices whose trial incremented a reject counter
    labels,           \* history: <<index, truth>> of the trials run
    raised,           \* exception that ended the most recent call, or "none"
    last,             \* history: summary of the most recent finished call
    kept,             \* history: summary of some earlier finished call
    shards,           \* partial frames, one per worker, of a sharded loop
    side              \* the two calls of a side-by-side execution

vars == <<mt, rng, pc, nsamples, signif_level, p_positive, todo, iteration,
          true_positives, false_positives, true_negatives, false_negatives,
          truth, x, se, tstat, pvalue, rejected, labels, raised, last, kept,
          shards, side>>

-----------------------------------------------------------------------------
(* Bounds of the model *)

\* trials per call; the source sets n_iters = 10000 (part_000 line 174)
n_iters == 2

\* largest nsamples a call is made with
MaxSamples == 3

\* workers a sharded loop is split across
NWorkers == 2

-----------------------------------------------------------------------------
(* Program constants, in fixed point *)

\* fixed-point units per 1.0
FP == 1000

true_mean == 2820

true_variance == 560

reference_mean == 2930

SeedBase == 313

\* seed(313 + iteration) for iteration in range(n_iters)
SeedSet == SeedBase .. (SeedBase + n_iters - 1)

\* range(n_iters)
Range == 0 .. (n_iters - 1)

\* the values of signif_level the lesson calls the function with
SignifLevels == {10, 50, 100}

\* values of p_positive: 0.0, 0.5, 1.0
PPositives == {0, 500, 1000}

\* the function takes any argument values: also 0.0 and 1.0 as signif_level
\* and -0.5 and 1.5 as p_positive
AnySignifLevels == SignifLevels \cup {0, FP}

AnyPPositives == PPositives \cup {-500, 1500}

SampleSizes == 1 .. MaxSamples

Workers == 1 .. NWorkers

-----------------------------------------------------------------------------
(* Floating point *)

Fin(v) == [kind |-> "fin", v |-> v]

NaN == [kind |-> "nan", v |-> 0]

PosInf == [kind |-> "inf", v |-> 0]

NegInf == [kind |-> "-inf", v |-> 0]

Unbound == [kind |-> "unbound", v |-> 0]

Abs(a) == IF a < 0 THEN -a ELSE a

\* integer quotient rounded toward zero
Quot(a, b) == IF (a < 0) = (b < 0) THEN Abs(a) \div Abs(b) ELSE -(Abs(a) \div Abs(b))

\* a * b of two finite floats
FMul(a, b) == Quot(a * b, FP)

\* a / b of two finite numpy floats: division by zero yields inf, -inf or nan
FDiv(a, b) ==
    IF b # 0 THEN Fin(Quot(a * FP, b))
    ELSE IF a > 0 THEN PosInf
    ELSE IF a < 0 THEN NegInf
    ELSE NaN

\* mutant of FLt: <= written for <
FLt_OrEqual(p, a) == p.kind = "fin" /\ p.v <= a

\* mutant of FLt: > written for <
FLt_Reversed(p, a) == p.kind = "fin" /\ p.v > a

\* mutant of FGe: > written for >=
FGe_Strict(p, a) == p.kind = "fin" /\ p.v > a

\* p < a and p >= a on floats: every comparison with nan is False
FLt(p, a) == p.kind = "fin" /\ p.v < a

FGe(p, a) == p.kind = "fin" /\ p.v >= a

RECURSIVE Bisect(_, _, _)
Bisect(v, lo, hi) ==
    IF lo >= hi THEN lo
    ELSE LET mid == (lo + hi + 1) \div 2
         IN IF mid * mid <= v THEN Bisect(v, mid, hi) ELSE Bisect(v, lo, mid - 1)

\* largest r with r * r <= v
Isqrt(v) == Bisect(v, 0, IF v < 46340 THEN v ELSE 46340)

\* sqrt of a float that is a whole number n
sqrt(n) == Isqrt(n * FP * FP)

\* true_variance**0.5
scale == Isqrt(true_variance * FP)

RECURSIVE SumSeq(_)
SumSeq(s) == IF s = <<>> THEN 0 ELSE Head(s) + SumSeq(Tail(s))

mean(s) == Quot(SumSeq(s), Len(s))


\* numpy.std: the root of the mean squared deviation from the mean
std(s) ==
    LET m == mean(s)
        sq == [i \in 1 .. Len(s) |-> (s[i] - m) * (s[i] - m)]
    IN Isqrt(Quot(SumSeq(sq), Len(s)))

-----------------------------------------------------------------------------
(* The random generator *)

\* uniform variates the generator yields, in [0, 1); stream k starts at the
\* k-th
UTable == <<0, 500, 999, 0>>

\* standard normal deviates the generator yields, one row per stream; the
\* deviates of a row are pairwise distinct
NormTable ==
    << <<-2400, -2300, -2350, -2450, -2250>>,
       <<-1500,  -500, -1000, -1250,  -750>>,
       <<  300,  -200,   900,  -600,   100>>,
       << 2000,  2200,  1800,  2400,  1600>> >>

Streams == DOMAIN NormTable

\* mutant of Seeded: the call to seed is missing
Seeded_Stale(g, s) == g

\* mutant of Seeded: the generator is seeded for the first index only
Seeded_OnlyFirst(g, s) == IF s = SeedBase THEN [key |-> mt[s], pos |-> 0] ELSE g

\* numpy.random.seed(s): the state depends on s alone, whatever g was
Seeded(g, s) == [key |-> mt[s], pos |-> 0]

Advance(g, k) == [key |-> g.key, pos |-> g.pos + k]

\* numpy.random.rand(): the next uniform variate
rand(g) == UTable[((g.key + g.pos - 1) % Len(UTable)) + 1]

\* the next standard normal deviate
Deviate(g) ==
    LET row == NormTable[g.key]
    IN row[((g.pos + Len(row) - 1) % Len(row)) + 1]

\* norm.rvs(loc, scale, size): size deviates, scaled and shifted
norm_rvs(loc, sc, size, g) ==
    [i \in 1 .. size |-> loc + FMul(sc, Deviate(Advance(g, i - 1)))]

-----------------------------------------------------------------------------
(* scipy.stats.t.cdf *)

\* lower quantiles of Student's t for the levels 0.01, 0.05, 0.10
TQuantiles(df) ==
    IF df = 1 THEN <<-31821, -6314, -3078>>
    ELSE IF df = 2 THEN <<-6965, -2920, -1886>>
    ELSE IF df = 3 THEN <<-4541, -2353, -1638>>
    ELSE <<-3747, -2132, -1533>>

\* the levels p-values are resolved to, each with its quantile
TSteps(df) ==
    LET q == TQuantiles(df)
    IN { <<10, q[1]>>, <<50, q[2]>>, <<100, q[3]>>, <<500, 0>>,
         <<900, -q[3]>>, <<950, -q[2]>>, <<990, -q[1]>> }

\* t.cdf(t, df): nan for nan or for df <= 0, else the cumulative probability,
\* rounded down to a level, so that t.cdf(t) < a is exact for a level a
TCdf(t, df) ==
    IF df <= 0 \/ t.kind = "nan" THEN NaN
    ELSE IF t.kind = "-inf" THEN Fin(0)
    ELSE IF t.kind = "inf" THEN Fin(FP)
    ELSE LET reached == {s \in TSteps(df) : t.v >= s[2]}
         IN IF reached = {} THEN Fin(0)
            ELSE Fin((CHOOSE s \in reached : \A r \in reached : r[1] <= s[1])[1])

-----------------------------------------------------------------------------
(* calc_precision_recall *)

\* the counters as the function initialises them
ZeroTally == [tp |-> 0, fp |-> 0, tn |-> 0, fn |-> 0]

\* the frame of a call before its first trial
NewFrame(g) ==
    [rng |-> g, tally |-> ZeroTally, rejected |-> {}, labels |-> {},
     truth |-> "unbound", x |-> <<>>, se |-> Unbound, tstat |-> Unbound,
     pvalue |-> Unbound]

\* truth == 'positive' and pvalue < signif_level, and the three other tests
IsTruePositive(tr, p, a) == tr = "positive" /\ FLt(p, a)

\* mutant of IsFalseNegative: the wrong truth label tested
IsFalseNegative_Negative(tr, p, a) == tr = "negative" /\ FGe(p, a)

IsFalseNegative(tr, p, a) == tr = "positive" /\ FGe(p, a)

IsFalsePositive(tr, p, a) == tr = "negative" /\ FLt(p, a)

IsTrueNegative(tr, p, a) == tr = "negative" /\ FGe(p, a)

\* mutant of Bump: -= 1 written for += 1
Bump_Down(c, cond) == IF cond THEN c - 1 ELSE c

\* counter += 1 under an if
Bump(c, cond) == IF cond THEN c + 1 ELSE c

\* the four if statements that close the loop body
Classify(t, tr, p, a) ==
    [tp |-> Bump(t.tp, IsTruePositive(tr, p, a)),
     fn |-> Bump(t.fn, IsFalseNegative(tr, p, a)),
     fp |-> Bump(t.fp, IsFalsePositive(tr, p, a)),
     tn |-> Bump(t.tn, IsTrueNegative(tr, p, a))]

\* mutant of IsPositive: <= written for <
IsPositive_OrEqual(u, p) == u <= p

\* rand() < p_positive
IsPositive(u, p) == u < p

\* the loop body from se = std(x)/sqrt(len(x)) on, for index it, on frame f,
\* with truth tr and sample xs drawn and the generator left at g2
Tested(f, it, tr, xs, g2, a) ==
    LET s == FDiv(std(xs), sqrt(Len(xs)))
        ts == IF s.kind = "fin" THEN FDiv(mean(xs) - reference_mean, s.v) ELSE NaN
        pv == TCdf(ts, Len(xs) - 1)
        tally == Classify(f.tally, tr, pv, a)
    IN [rng |-> g2, tally |-> tally,
        rejected |-> IF tally.tp + tally.fp > f.tally.tp + f.tally.fp
                     THEN f.rejected \cup {it} ELSE f.rejected,
        labels |-> f.labels \cup {<<it, tr>>},
        truth |-> tr, x |-> xs, se |-> s, tstat |-> ts, pvalue |-> pv]

\* the loop body after its call to seed, for index it, on frame f
AfterSeed(f, it, n, a, p) ==
    LET g0 == f.rng
        u == rand(g0)
        g1 == Advance(g0, 1)
        tr == IF IsPositive(u, p) THEN "positive" ELSE "negative"
        xs == IF IsPositive(u, p) THEN norm_rvs(true_mean, scale, n, g1)
              ELSE norm_rvs(reference_mean, scale, n, g1)
    IN Tested(f, it, tr, xs, Advance(g1, n), a)

\* seed(313+iteration) on frame f
SeedStep(f, it) == [f EXCEPT !.rng = Seeded(f.rng, SeedBase + it)]

\* one pass of the loop body for index it, on frame f of a call (n, a, p)
LoopBody(f, it, n, a, p) == AfterSeed(SeedStep(f, it), it, n, a, p)

\* true_positives / (true_positives + false_positives), and the like
Ratio(num, den) == Fin(Quot(num * FP, den))

\* the statements after the loop: an int division by zero raises
Summary(f, n, a, p) ==
    LET t == f.tally
        precisionRaises == t.tp + t.fp = 0
        recallRaises == t.tp + t.fn = 0
    IN [nsamples |-> n, signif_level |-> a, p_positive |-> p,
        tp |-> t.tp, fp |-> t.fp, tn |-> t.tn, fn |-> t.fn,
        rejected |-> f.rejected, labels |-> f.labels,
        raised |-> IF precisionRaises \/ recallRaises
                   THEN "ZeroDivisionError" ELSE "none",
        precision |-> IF precisionRaises THEN Unbound
                      ELSE Ratio(t.tp, t.tp + t.fp),
        recall |-> IF precisionRaises \/ recallRaises THEN Unbound
                   ELSE Ratio(t.tp, t.tp + t.fn)]

\* no call has finished yet
NoRun ==
    [nsamples |-> 0, signif_level |-> 0, p_positive |-> 0,
     tp |-> 0, fp |-> 0, tn |-> 0, fn |-> 0, rejected |-> {}, labels |-> {},
     raised |-> "none", precision |-> Unbound, recall |-> Unbound]

\* the frame held in the variables
Frame ==
    [rng |-> rng,
     tally |-> [tp |-> true_positives, fp |-> false_positives,
                tn |-> true_negatives, fn |-> false_negatives],
     rejected |-> rejected, labels |-> labels, truth |-> truth, x |-> x, se |-> se,
     tstat |-> tstat, pvalue |-> pvalue]

\* the variables take the values of frame f
SetFrame(f) ==
    /\ rng' = f.rng
    /\ true_positives' = f.tally.tp
    /\ false_positives' = f.tally.fp
    /\ true_negatives' = f.tally.tn
    /\ false_negatives' = f.tally.fn
    /\ rejected' = f.rejected
    /\ labels' = f.labels
    /\ truth' = f.truth
    /\ x' = f.x
    /\ se' = f.se
    /\ tstat' = f.tstat
    /\ pvalue' = f.pvalue

Min(S) == CHOOSE m \in S : \A k \in S : m <= k

\* the two calls of a side-by-side execution
Runs == {1, 2}

\* no side-by-side execution is under way
SideIdle ==
    [r \in Runs |-> [n |-> 0, a |-> 0, p |-> 0, frame |-> NewFrame(Unbound),
                     todo |-> {}, at |-> "seed", it |-> 0]]

\* cells 1 to 3 have run: seed(313), then norm.rvs(size=100)
Init ==
    /\ mt \in [SeedSet -> Streams]
    /\ rng = [key |-> mt[SeedBase], pos |-> 100]
    /\ pc = "idle"
    /\ nsamples = 0
    /\ signif_level = 0
    /\ p_positive = 0
    /\ todo = {}
    /\ iteration = 0
    /\ true_positives = 0
    /\ false_positives = 0
    /\ true_negatives = 0
    /\ false_negatives = 0
    /\ truth = "unbound"
    /\ x = <<>>
    /\ se = Unbound
    /\ tstat = Unbound
    /\ pvalue = Unbound
    /\ rejected = {}
    /\ labels = {}
    /\ raised = "none"
    /\ last = NoRun
    /\ kept = NoRun
    /\ shards = [w \in Workers |-> NewFrame(Unbound)]
    /\ side = SideIdle

\* calc_precision_recall(n, a, p) is entered: the statements before the loop
Call(n, a, p) ==
    /\ pc = "idle"
    /\ pc' = "loop"
    /\ nsamples' = n
    /\ signif_level' = a
    /\ p_positive' = p
    /\ todo' = Range
    /\ iteration' = 0
    /\ SetFrame(NewFrame(rng))
    /\ raised' = "none"
    /\ UNCHANGED <<mt, last, kept, shards>>
    /\ UNCHANGED side

\* the loop body runs for the next index of range(n_iters)
Trial ==
    /\ pc = "loop"
    /\ todo # {}
    /\ iteration' = Min(todo)
    /\ todo' = todo \ {iteration'}
    /\ \E f \in {LoopBody(Frame, iteration', nsamples, signif_level, p_positive)} :
           SetFrame(f)
    /\ UNCHANGED <<mt, pc, nsamples, signif_level, p_positive, raised, last, kept,
                   shards>>
    /\ UNCHANGED side

\* the call is left and its frame discarded
Leave(summary) ==
    /\ pc' = "idle"
    /\ raised' = summary.raised
    /\ nsamples' = 0
    /\ signif_level' = 0
    /\ p_positive' = 0
    /\ iteration' = 0
    /\ SetFrame(NewFrame(rng))
    /\ UNCHANGED <<mt, todo, last, kept, shards>>
    /\ UNCHANGED side

\* the loop is over, both divisions succeed, the results are printed
Return ==
    /\ pc = "loop"
    /\ todo = {}
    /\ Summary(Frame, nsamples, signif_level, p_positive).raised = "none"
    /\ Leave(Summary(Frame, nsamples, signif_level, p_positive))

\* the loop is over and a division raises ZeroDivisionError: nothing is printed
Raise ==
    /\ pc = "loop"
    /\ todo = {}
    /\ Summary(Frame, nsamples, signif_level, p_positive).raised # "none"
    /\ Leave(Summary(Frame, nsamples, signif_level, p_positive))

Next ==
    \/ \E n \in SampleSizes, a \in AnySignifLevels, p \in AnyPPositives :
           Call(n, a, p)
    \/ Trial
    \/ Return
    \/ Raise

Spec == Init /\ [][Next]_vars

-----------------------------------------------------------------------------
(* calc_precision_recall(nsamples, signif_level) of the first lesson        *)
(* (src/Lesson1-HypothesisTesting.ipynb): the ground truth alternates with  *)
(* the index and the sample is drawn with randn.                            *)

\* randn(size)*sc + loc
randn_scaled(loc, sc, size, g) ==
    [i \in 1 .. size |-> FMul(Deviate(Advance(g, i - 1)), sc) + loc]

\* one pass of the loop body for index it, on frame f of a call (n, a)
LoopBodyAlt(f, it, n, a) ==
    LET g0 == Seeded(f.rng, SeedBase + it)
        tr == IF it % 2 = 0 THEN "positive" ELSE "negative"
        xs == IF it % 2 = 0 THEN randn_scaled(true_mean, scale, n, g0)
              ELSE randn_scaled(reference_mean, scale, n, g0)
    IN Tested(f, it, tr, xs, Advance(g0, n), a)

CallAlt(n, a) ==
    /\ pc = "idle"
    /\ pc' = "loop"
    /\ nsamples' = n
    /\ signif_level' = a
    /\ p_positive' = 0
    /\ todo' = Range
    /\ iteration' = 0
    /\ SetFrame(NewFrame(rng))
    /\ raised' = "none"
    /\ UNCHANGED <<mt, last, kept, shards, side>>

TrialAlt ==
    /\ pc = "loop"
    /\ todo # {}
    /\ iteration' = Min(todo)
    /\ todo' = todo \ {iteration'}
    /\ \E f \in {LoopBodyAlt(Frame, iteration', nsamples, signif_level)} :
           SetFrame(f)
    /\ UNCHANGED <<mt, pc, nsamples, signif_level, p_positive, raised, last, kept,
                   shards, side>>

NextAlt ==
    \/ \E n \in SampleSizes, a \in AnySignifLevels : CallAlt(n, a)
    \/ TrialAlt
    \/ Return
    \/ Raise

SpecAlt == Init /\ [][NextAlt]_vars

-----------------------------------------------------------------------------
(* Whole calls, one after the other, as the cells of the lesson make them *)

\* the loop from index it on, in the order of range(n_iters)
RECURSIVE RunLoop(_, _, _, _, _)
RunLoop(f, it, n, a, p) ==
    IF it >= n_iters THEN f
    ELSE LET g == CHOOSE r \in {LoopBody(f, it, n, a, p)} : TRUE
         IN RunLoop(g, it + 1, n, a, p)

\* calc_precision_recall(n, a, p) from entry to exit.  The calls of one
\* behaviour vary nsamples and signif_level and share p_positive; the
\* observer keeps the summary of one earlier call of its choice
RunCall(n, a, p) ==
    /\ pc = "idle"
    /\ last = NoRun \/ p = last.p_positive
    /\ \E f \in {RunLoop(NewFrame(rng), 0, n, a, p)} :
         /\ rng' = f.rng
         /\ last' = Summary(f, n, a, p)
         /\ raised' = last'.raised
    /\ kept' \in IF kept = NoRun THEN {kept, last} ELSE {kept}
    /\ UNCHANGED <<mt, pc, nsamples, signif_level, p_positive, todo, iteration,
                   true_positives, false_positives, true_negatives,
                   false_negatives, truth, x, se, tstat, pvalue, rejected,
                   labels,
                   shards>>
    /\ UNCHANGED side

NextRuns ==
    \E n \in SampleSizes, a \in SignifLevels, p \in PPositives : RunCall(n, a, p)

SpecRuns == Init /\ [][NextRuns]_vars

-----------------------------------------------------------------------------
(* The loop split across workers: every index of range(n_iters) is run      *)
(* once, in any order, by any worker, on that worker's partial frame; the   *)
(* partial tallies are added up when all indices are done.                  *)

RECURSIVE SumOver(_, _)
SumOver(W, c) ==
    IF W = {} THEN 0
    ELSE LET w == CHOOSE v \in W : TRUE
         IN shards[w].tally[c] + SumOver(W \ {w}, c)

CallSharded(n, a, p) ==
    /\ pc = "idle"
    /\ pc' = "shards"
    /\ nsamples' = n
    /\ signif_level' = a
    /\ p_positive' = p
    /\ todo' = Range
    /\ iteration' = 0
    /\ SetFrame(NewFrame(rng))
    /\ shards' = [w \in Workers |-> NewFrame(rng)]
    /\ raised' = "none"
    /\ UNCHANGED <<mt, last, kept>>
    /\ UNCHANGED side

ShardTrial(w) ==
    /\ pc = "shards"
    /\ \E i \in todo :
         /\ iteration' = i
         /\ todo' = todo \ {i}
         /\ shards' = [shards EXCEPT
                ![w] = LoopBody(shards[w], i, nsamples, signif_level, p_positive)]
    /\ UNCHANGED <<mt, rng, pc, nsamples, signif_level, p_positive,
                   true_positives, false_positives, true_negatives,
                   false_negatives, truth, x, se, tstat, pvalue, rejected,
                   labels,
                   raised, last, kept>>
    /\ UNCHANGED side

Merge ==
    /\ pc = "shards"
    /\ todo = {}
    /\ pc' = "loop"
    /\ true_positives' = SumOver(Workers, "tp")
    /\ false_positives' = SumOver(Workers, "fp")
    /\ true_negatives' = SumOver(Workers, "tn")
    /\ false_negatives' = SumOver(Workers, "fn")
    /\ rejected' = UNION {shards[w].rejected : w \in Workers}
    /\ labels' = UNION {shards[w].labels : w \in Workers}
    /\ shards' = [w \in Workers |-> NewFrame(Unbound)]
    /\ UNCHANGED <<mt, rng, nsamples, signif_level, p_positive, todo, iteration,
                   truth, x, se, tstat, pvalue, raised, last, kept>>
    /\ UNCHANGED side

NextPerm ==
    \/ \E n \in SampleSizes, a \in SignifLevels, p \in PPositives :
           CallSharded(n, a, p)
    \/ \E w \in Workers : ShardTrial(w)
    \/ Merge
    \/ Return
    \/ Raise

SpecPerm == Init /\ [][NextPerm]_vars

-----------------------------------------------------------------------------
(* Two calls side by side, in two threads of one interpreter: each has its *)
(* own frame, both use numpy's global generator and the module's globals.  *)
(* A thread can be switched out between any two statements; the model      *)
(* switches between the call to seed and the rest of the loop body.        *)

StartSide(c) ==
    /\ pc = "idle"
    /\ pc' = "side"
    /\ side' = [r \in Runs |->
                  [n |-> c[r][1], a |-> c[r][2], p |-> c[r][3],
                   frame |-> NewFrame(rng), todo |-> Range, at |-> "seed",
                   it |-> 0]]
    /\ UNCHANGED <<mt, rng, nsamples, signif_level, p_positive, todo, iteration,
                   true_positives, false_positives, true_negatives,
                   false_negatives, truth, x, se, tstat, pvalue, rejected,
                   labels, raised, last, kept, shards>>

\* call r runs seed(313+iteration) for its next index
SideSeed(r) ==
    /\ pc = "side"
    /\ side[r].at = "seed"
    /\ side[r].todo # {}
    /\ rng' = Seeded(rng, SeedBase + Min(side[r].todo))
    /\ side' = [side EXCEPT ![r].at = "body", ![r].it = Min(side[r].todo)]
    /\ UNCHANGED <<mt, pc, nsamples, signif_level, p_positive, todo, iteration,
                   true_positives, false_positives, true_negatives,
                   false_negatives, truth, x, se, tstat, pvalue, rejected,
                   labels, raised, last, kept, shards>>

\* call r runs the rest of the loop body, drawing from the global generator
SideBody(r) ==
    /\ pc = "side"
    /\ side[r].at = "body"
    /\ \E f \in {AfterSeed([side[r].frame EXCEPT !.rng = rng], side[r].it,
                            side[r].n, side[r].a, side[r].p)} :
         /\ rng' = f.rng
         /\ side' = [side EXCEPT ![r].frame = f, ![r].at = "seed",
                                 ![r].todo = side[r].todo \ {side[r].it}]
    /\ UNCHANGED <<mt, pc, nsamples, signif_level, p_positive, todo, iteration,
                   true_positives, false_positives, true_negatives,
                   false_negatives, truth, x, se, tstat, pvalue, rejected,
                   labels, raised, last, kept, shards>>

Configurations == SampleSizes \X SignifLevels \X PPositives

NextSide ==
    \/ \E c \in {d \in [Runs -> Configurations] : d[1] # d[2]} : StartSide(c)
    \/ \E r \in Runs : SideSeed(r)
    \/ \E r \in Runs : SideBody(r)

SpecSide == Init /\ [][NextSide]_vars

-----------------------------------------------------------------------------
(* Vocabulary of the claims *)

\* a configuration the specification calls valid (trial_count is n_iters >= 1)
ValidConfiguration(n, a, p) == n >= 2 /\ 0 < a /\ a < FP /\ 0 <= p /\ p <= FP

ActiveValid == ValidConfiguration(nsamples, signif_level, p_positive)

\* the trial loop of the active call has finished
LoopOver == pc = "loop" /\ todo = {}

\* the active call has run at least one trial
SomeTrialRan == pc = "loop" /\ todo # Range

TallySum == true_positives + false_positives + true_negatives + false_negatives

\* a step that runs one trial
TrialStep == pc = "loop" /\ todo' # todo

\* how many of the four counters a step changes
CountersChanged ==
    Cardinality({c \in {"tp", "fp", "tn", "fn"} :
        \/ c = "tp" /\ true_positives' # true_positives
        \/ c = "fp" /\ false_positives' # false_positives
        \/ c = "tn" /\ true_negatives' # true_negatives
        \/ c = "fn" /\ false_negatives' # false_negatives})

-----------------------------------------------------------------------------
(* C1: for a valid configuration, when the trial loop has finished,        *)
(* true_positives + false_positives + true_negatives + false_negatives     *)
(* equals the trial count.                                                 *)
C1_TallySumsToTrialCount == (LoopOver /\ ActiveValid) => TallySum = n_iters

C1_Witness ==
    /\ LoopOver
    /\ ActiveValid
    /\ TallySum = n_iters
    /\ true_positives > 0
    /\ true_negatives > 0

(* C2: every trial increments exactly one counter by 1, the one given by   *)
(* (ground truth, decision), and leaves the other three unchanged.         *)
C2_ExactlyOneBucket ==
    [][TrialStep =>
        /\ CountersChanged = 1
        /\ TallySum' = TallySum + 1]_vars

(* C3: a run whose precision or recall denominator is zero reports the     *)
(* metric as undefined and returns; it never ends in a divide-by-zero      *)
(* failure.                                                                *)
C3_NoDivideByZeroFailure == raised # "ZeroDivisionError"

(* C4: an invalid configuration is rejected before any trial runs: no      *)
(* sample is drawn and no counter leaves zero.                             *)
C4_InvalidRejectedBeforeTrials ==
    (pc = "loop" /\ ~ActiveValid) => (todo = Range /\ x = <<>> /\ TallySum = 0)

(* C5: a trial whose standard error is zero is signalled as a degenerate   *)
(* sample; the run does not go on silently.                                *)
C5_DegenerateSampleSignalled ==
    (SomeTrialRan /\ se = Fin(0)) => raised = "DegenerateSample"

C10_MetricsInUnitInterval ==
    LoopOver =>
        LET s == Summary(Frame, nsamples, signif_level, p_positive)
        IN /\ 0 <= true_positives
           /\ true_positives <= true_positives + false_positives
           /\ true_positives <= true_positives + false_negatives
           /\ s.precision.kind = "fin" => (0 <= s.precision.v /\ s.precision.v <= FP)
           /\ s.recall.kind = "fin" => (0 <= s.recall.v /\ s.recall.v <= FP)

C10_Witness ==
    /\ LoopOver
    /\ true_positives > 0
    /\ false_positives > 0
    /\ Summary(Frame, nsamples, signif_level, p_positive).precision.kind = "fin"
    /\ Summary(Frame, nsamples, signif_level, p_positive).precision.v < FP

-----------------------------------------------------------------------------
(* Claims about several runs *)

SameConfiguration(r1, r2) ==
    /\ r1.nsamples = r2.nsamples
    /\ r1.signif_level = r2.signif_level
    /\ r1.p_positive = r2.p_positive

SameTally(r1, r2) ==
    r1.tp = r2.tp /\ r1.fp = r2.fp /\ r1.tn = r2.tn /\ r1.fn = r2.fn

\* r1 and r2 differ in signif_level at most, r1's being the lower
LowerLevel(r1, r2) ==
    /\ r1.nsamples = r2.nsamples
    /\ r1.p_positive = r2.p_positive
    /\ r1.signif_level <= r2.signif_level

(* C7: two runs with the same configuration produce the same tallies,      *)
(* whatever runs came before or between them.                              *)
C7_SameConfigurationSameTally ==
    (kept # NoRun /\ SameConfiguration(kept, last)) => SameTally(kept, last)

C7_Witness ==
    /\ kept # NoRun
    /\ SameConfiguration(kept, last)
    /\ SameTally(kept, last)
    /\ kept.tp > 0
    /\ kept.tn > 0

(* C8: of two runs that differ in signif_level only, the one with the      *)
(* higher level rejects every trial the other rejects, so its count of     *)
(* rejections true_positives + false_positives is at least as large.       *)
C8_RejectsMonotoneInLevel ==
    \A r1 \in {kept, last}, r2 \in {kept, last} :
        (kept # NoRun /\ LowerLevel(r1, r2)) =>
            /\ r1.rejected \subseteq r2.rejected
            /\ r1.tp + r1.fp <= r2.tp + r2.fp

C8_Witness ==
    /\ kept # NoRun
    /\ LowerLevel(last, kept)
    /\ last.signif_level < kept.signif_level
    /\ last.tp + last.fp < kept.tp + kept.fp
    /\ last.tp + last.fp > 0

-----------------------------------------------------------------------------
(* C11: two runs with different configurations, executed side by side      *)
(* with their steps interleaved, each produce the tallies they produce     *)
(* when run alone.                                                         *)
C11_SideBySideAsAlone ==
    \A r \in Runs :
        (pc = "side" /\ side[r].todo = {}) =>
            side[r].frame.tally =
                RunLoop(NewFrame(rng), 0, side[r].n, side[r].a, side[r].p).tally

(* C12: the ground truth of a trial is positive, and its sample drawn     *)
(* around true_mean, if and only if the uniform draw is strictly below     *)
(* p_positive; a draw equal to p_positive is negative.  With p_positive =  *)
(* 0 no trial is positive, with p_positive = 1 none is negative.           *)
C12_TruthByUniformDraw ==
    [][TrialStep =>
        LET g == Seeded(rng, SeedBase + iteration')
            u == rand(g)
            loc == IF u < p_positive THEN true_mean ELSE reference_mean
        IN /\ truth' = IF u < p_positive THEN "positive" ELSE "negative"
           /\ x' = norm_rvs(loc, scale, nsamples, Advance(g, 1))
           /\ p_positive = 0 => (true_positives' = 0 /\ false_negatives' = 0)
           /\ p_positive = FP => (false_positives' = 0 /\ true_negatives' = 0)]_vars

\* a trial whose draw equals p_positive was run and counted as negative
C12_Witness ==
    /\ SomeTrialRan
    /\ rand(Seeded(rng, SeedBase + iteration)) = p_positive
    /\ truth = "negative"
    /\ x = norm_rvs(reference_mean, scale, nsamples,
                    Advance(Seeded(rng, SeedBase + iteration), 1))
    /\ false_positives + true_negatives > 0

(* C13: at every point of the trial loop the counters are non-negative    *)
(* and sum to the number of trials completed; no counter decreases or      *)
(* changes by more than 1 in a trial.                                      *)
C13_TallyCountsCompletedTrials ==
    pc = "loop" =>
        /\ TallySum = n_iters - Cardinality(todo)
        /\ true_positives >= 0
        /\ false_positives >= 0
        /\ true_negatives >= 0
        /\ false_negatives >= 0

\* the sample standard deviation with the unbiased divisor n - 1
StdUnbiased(s) ==
    LET m == mean(s)
        sq == [i \in 1 .. Len(s) |-> (s[i] - m) * (s[i] - m)]
    IN Isqrt(Quot(SumSeq(sq), Len(s) - 1))

(* C15: the standard error of a trial is the sample standard deviation     *)
(* with the n - 1 divisor, divided by sqrt(nsamples), for every sample of  *)
(* size >= 2.                                                              *)
C15_StandardErrorUnbiased ==
    (SomeTrialRan /\ Len(x) >= 2) => se = FDiv(StdUnbiased(x), sqrt(Len(x)))

(* C14: in the alternating variant the ground truth follows the parity of *)
(* the index (even: positive, odd: negative), so for an even trial count   *)
(* half the trials are counted as truly positive (true_positives +         *)
(* false_negatives) and half as truly negative (false_positives +          *)
(* true_negatives), for every nsamples and signif_level.                   *)
C14_EvenMix ==
    LoopOver =>
        /\ labels = {<<i, IF i % 2 = 0 THEN "positive" ELSE "negative">> : i \in Range}
        /\ n_iters % 2 = 0 =>
             /\ 2 * (true_positives + false_negatives) = n_iters
             /\ 2 * (false_positives + true_negatives) = n_iters

(* C16: of two runs with the same p_positive (and the same seed basis and   *)
(* number of trials) every trial has the same ground-truth label, whatever *)
(* the signif_level; with the same nsamples too, the count of truly        *)
(* positive trials true_positives + false_negatives and of truly negative  *)
(* trials false_positives + true_negatives are the same in both runs: the  *)
(* level only moves trials between the two buckets of one ground truth.    *)
C16_TruthIndependentOfLevel ==
    (kept # NoRun /\ kept.p_positive = last.p_positive) =>
        /\ kept.labels = last.labels
        /\ kept.nsamples = last.nsamples =>
             /\ kept.tp + kept.fn = last.tp + last.fn
             /\ kept.fp + kept.tn = last.fp + last.tn

C16_Witness ==
    /\ kept # NoRun
    /\ kept.p_positive = last.p_positive
    /\ kept.nsamples = last.nsamples
    /\ kept.signif_level # last.signif_level
    /\ kept.labels = last.labels
    /\ kept.fp # last.fp
    /\ kept.fp + kept.tn = last.fp + last.tn
    /\ kept.tp + kept.fn = last.tp + last.fn
    /\ kept.tp + kept.fn > 0
    /\ kept.fp + kept.tn > 0

=============================================================================
